---- MODULE Spec2Model ----
(***************************************************************************)
(* ggkstac: harvesting of WFS layers and conversion into a STAC catalog.   *)
(*                                                                         *)
(* Download side (ggkstac/utils.py, ggkstac/ortho/download.py, cli.py):    *)
(*   download / _dl              the retrying fetch of one request         *)
(*   _go_through_pages           the cursor walk of one layer              *)
(*   download_and_save_to_geoparquet.worker, asyncio.gather, asyncio.run   *)
(*                               the dispatcher and its driver             *)
(* A worker takes one step per network attempt: everything the code does   *)
(* between two awaits on the network is part of the same step.             *)
(***************************************************************************)
EXTENDS Integers, Sequences, FiniteSets, TLC

\* ------------------------------------------------------------------ bounds
MaxLayers == 2          \* layer ids handed to the dispatcher
MaxPages == 2           \* pages the server holds for one layer
MaxFiles == 2           \* parquet files in the input folder
MaxRows == 2            \* rows in one parquet file
MaxQueued == 3          \* layer ids handed to a dispatcher of one slot
MaxChunks == 2          \* chunks the body of a response is streamed in
MaxCalls == 3           \* calls of wfs_service in one process
MaxDepth == 4           \* nested calls of _go_through_pages the interpreter's
                        \* recursion limit allows (about a thousand, scaled down)

\* ------------------------------------------------------- program constants
max_tries == 20         \* utils.py: max_tries = 20
page_size == 20000      \* download.py: page_size: int = 20_000
default_max_retries == 5 \* wfs.py: max_retries: int = 5

\* The layers of the service.
LayerIds == 1..(IF MaxQueued > MaxLayers THEN MaxQueued ELSE MaxLayers)

\* An optional value: None is <<>>, a value x is <<x>>.
None == <<>>
Some(x) == <<x>>

\* ------------------------------------------------------------- addresses
\* The address of the service; a cursor handed out by the server is an
\* address of the same service that names the layer and the page itself.
WFS_BASE_URL == [addr |-> "Skorowidze", cursor |-> <<>>]
NextUrl(l, p) == [addr |-> "Skorowidze", cursor |-> <<l, p>>]
\* The empty string: what getAttribute("next") gives for an absent or empty
\* attribute.
EmptyStr == [addr |-> "", cursor |-> <<>>]

\* if next_url:
Truthy(u) == u.addr /= ""

\* params = dict(SERVICE=..., TYPENAME=layer_id, COUNT=page_size)
LayerParams(layer_id) == Some([TYPENAME |-> layer_id, COUNT |-> page_size])

\* The page a request addresses: the query parameters select the first page
\* of a layer, a cursor selects the page it names.
PageOf(r) ==
    IF r.url.cursor = <<>>
    THEN [layer |-> r.params[1].TYPENAME, page |-> 1]
    ELSE [layer |-> r.url.cursor[1], page |-> r.url.cursor[2]]

\* --------------------------------------------------------------- outcomes
\* What one attempt of _dl can end in.
\*   ok       2xx and the body streamed to the end
\*   reset    httpx.TransportError (connection reset, connect error)
\*   timeout  httpx.TimeoutException
\*   stream   httpx.ReadError / httpx.StreamError while reading the body
\*   s5xx     raise_for_status on a 5xx status: httpx.HTTPStatusError
\*   s4xx     raise_for_status on a 4xx status: httpx.HTTPStatusError
\*   oserror  open(file_path, "wb") fails: OSError
Outcomes == {"ok", "reset", "timeout", "stream", "s5xx", "s4xx", "oserror"}

\* except (httpx.ReadError, httpx.StreamError, httpx.TransportError,
\*         httpx.TimeoutException, httpx.HTTPStatusError)
Caught(o) == o \in {"reset", "timeout", "stream", "s5xx", "s4xx"}

\* Off by one: gives up only after max_tries + 1 attempts.
GiveUpLate(try_number) == try_number > max_tries

\* if try_number >= max_tries: raise ... else: retry
GiveUp(try_number) == try_number >= max_tries

Min(S) == CHOOSE x \in S : \A y \in S : x <= y

\* ------------------------------------------------------------ target file
\* The body of the response for a page, as the chunks aiter_bytes yields.
Body(at) == [k \in 1..MaxChunks |-> [layer |-> at.layer, page |-> at.page, part |-> k]]

\* The file opened for appending: what it held stays.
OpenAppend(file) == file

\* open(file_path, "wb"): the file is truncated.
Open(file) == <<>>

\* The target file after an attempt on page at that wrote n chunks of the
\* body; -1 stands for an attempt that failed before the file was opened.
Stream(file, at, n) ==
    IF n < 0 THEN file ELSE Open(file) \o SubSeq(Body(at), 1, n)

\* How far an attempt that fails with o may have got: a connection or
\* status error is raised before the file is opened, a read error while the
\* body is streamed, a timeout at either time.
Progress(o) ==
    CASE o \in {"reset", "s5xx", "s4xx"} -> {-1}
      [] o = "stream" -> 0..(MaxChunks - 1)
      [] OTHER -> (-1)..(MaxChunks - 1)

VARIABLES
    layer_ids,      \* the layer ids given to download_and_save_to_geoparquet
    max_workers,    \* its max_workers
    pages,          \* server: layer id -> the next attribute of each page
    net,            \* environment: worker -> page -> outcomes an attempt may have
    worker,         \* worker -> state of its task
    semaphore,      \* asyncio.Semaphore: [value, waiters]
    folder,         \* output directory: layer id -> None or Some(rows written)
    doneq,          \* the loop's ready queue: the wake-ups of semaphore waiters
                    \* and the gather callbacks of finished tasks, in the
                    \* order they were scheduled
    nfinished,      \* gather: nfinished
    outer,          \* gather: the outer future
    mainpc,         \* download_and_save_to_geoparquet awaiting gather
    run,            \* asyncio.run around it (cli.main)
    finish_order,   \* history: the workers in the order their tasks ended
    input_folder,   \* convert: the input path: its kind and parquet files
    output_folder,  \* convert: the output path and what is under it
    catalog,        \* convert: the catalog document being built
    ortho_collection, \* convert: the main collection document being built
    cpc,            \* convert: where convert_geoparquet_files is
    nfile,          \* convert: the file the loop is at
    cli,            \* cli.main: the parsed arguments and what it did with them
    wfs             \* wfs.py: the global _service, the call of wfs_service going
                    \* on, and the history of the calls

\* The variables of the download side and of the conversion.
dvars == <<layer_ids, max_workers, pages, net, worker, semaphore, folder,
           doneq, nfinished, outer, mainpc, run, finish_order>>
cvars == <<input_folder, output_folder, catalog, ortho_collection, cpc, nfile>>
vars == <<dvars, cvars, cli, wfs>>

Workers == 1..Len(layer_ids)

Finished(w) == w.pc \in {"done", "failed", "cancelled"}

\* No command line: the operation is called as a library function.
NoCli == [pc |-> "idle", args |-> None, call |-> None, dispatch |-> None,
          printed |-> None, exc |-> None]

\* The module wfs as imported: _service is None and no call has been made.
\*   service      the global _service: None or the handle
\*   pc           "idle", or "connecting" inside _get_service
\*   try_number   of the _get_service call going on, after try_number += 1
\*   max_retries  of the wfs_service call going on
\*   attempts     connection attempts the call going on (or the last) made
\*   cause        the error of the attempt before this one
\*   connections  connection attempts made since the import
\*   results      what the calls returned or raised, in order
NoWfs == [service |-> None, pc |-> "idle", try_number |-> 0, max_retries |-> 0,
          attempts |-> 0, cause |-> None, connections |-> 0, results |-> <<>>]

\* ------------------------------------------------------------- semaphore
\* Semaphore.locked()
Locked(sem) == sem.value = 0 \/ sem.waiters /= <<>>

RemoveWaiter(q, i) == SelectSeq(q, LAMBDA j : j /= i)

\* Semaphore._wake_up_next(): the first waiter whose future is not done
\* gets the slot and is woken.
WakeUpNext(sem, ws) ==
    LET idx == {k \in 1..Len(sem.waiters) : ws[sem.waiters[k]].pc = "waiting"}
    IN  IF idx = {}
        THEN [sem |-> sem, ws |-> ws]
        ELSE [sem |-> [sem EXCEPT !.value = @ - 1],
              ws |-> [ws EXCEPT ![sem.waiters[Min(idx)]].pc = "woken"]]

\* Semaphore.release(), run by the exit of "async with semaphore".
Release(sem, ws) == WakeUpNext([sem EXCEPT !.value = @ + 1], ws)

\* ---------------------------------------------------------------- worker
\* A download that goes on counting where the request before it stopped.
CallDownloadSharedBudget(w, url, params) ==
    LET r == [url |-> url, params |-> params]
    IN  [w EXCEPT !.req = r,
                  !.try_number = IF @ = 0 THEN 1 ELSE @,
                  !.cause = None,
                  !.reqs = Append(@, r), !.tries = Append(@, 0),
                  !.file = <<>>, !.left = <<>>]

\* with tempfile.NamedTemporaryFile() as f: download(url, params, f.name):
\* a new, empty file and a fresh _dl() with try_number = 1.
CallDownload(w, url, params) ==
    LET r == [url |-> url, params |-> params]
    IN  [w EXCEPT !.req = r, !.try_number = 1, !.cause = None,
                  !.reqs = Append(@, r), !.tries = Append(@, 0),
                  !.file = <<>>, !.left = <<>>]

\* One more attempt of the current request has been made.
Attempted(w) == [w EXCEPT !.tries[Len(w.tries)] = @ + 1]

\* Keeps the latest page only.
KeepPageOnly(w, at) == [w EXCEPT !.dfs = <<at>>]

\* dfs.append(gpd.read_file(f))
KeepPage(w, at) == [w EXCEPT !.dfs = Append(@, at)]

\* The attempt that succeeds: the file is opened and the whole body is
\* written; download returns and gpd.read_file(f) reads the file.  What was
\* read is kept in seen, what the failed attempts had left in the file in
\* left.
Downloaded(w, at) ==
    LET file == Stream(w.file, at, MaxChunks)
    IN  [w EXCEPT !.file = file, !.left = w.file, !.seen = Append(@, file)]

\* await _go_through_pages(url=WFS_BASE_URL, params=params)
FirstPage(w, layer_id) == CallDownload(w, WFS_BASE_URL, LayerParams(layer_id))

\* The query parameters applied again to the cursor.
FollowCursorWithParams(w, next_url) == CallDownload(w, next_url, w.req.params)

\* await _go_through_pages(url=next_url, params=None)
FollowCursor(w, next_url) == CallDownload(w, next_url, None)

\* The body of "async with semaphore" up to its first await on the network.
EnterSection(w, layer_id) ==
    FirstPage([w EXCEPT !.pc = "fetch", !.dfs = <<>>, !.reqs = <<>>,
                        !.tries = <<>>, !.seen = <<>>, !.left = <<>>],
              layer_id)

\* raise Exception(f"Could not download file: ... from {url} with params
\* {params}") from e
DownloadError(w, o) ==
    [type |-> "Exception", about |-> Some(w.req), cause |-> Some(o),
     path |-> None]

\* An error of an attempt that the except clause does not name.
RawError(o) == [type |-> o, about |-> None, cause |-> None, path |-> None]

\* The CancelledError a cancelled task ends with.
CancelledError ==
    [type |-> "CancelledError", about |-> None, cause |-> None, path |-> None]

\* file_path = folder / f"{layer_id}.parquet"
FilePath(layer_id) ==
    [type |-> "Path", about |-> None, cause |-> None, path |-> Some(layer_id)]

InitWorker ==
    [pc |-> "pending", req |-> [url |-> EmptyStr, params |-> None],
     try_number |-> 0, cause |-> None, dfs |-> <<>>, reqs |-> <<>>,
     tries |-> <<>>, file |-> <<>>, left |-> <<>>, seen |-> <<>>,
     result |-> None,
     cancel |-> FALSE]

\* The entries of the ready queue: fut.set_result(True) of a waiter's
\* future schedules the waiter's wake-up, the end of a task schedules
\* gather's _done_callback for it.
WakeUp(i) == [kind |-> "wake", task |-> i]
TaskDone(i) == [kind |-> "done", task |-> i]

\* The wake-up scheduled by a release that took the workers from before to
\* after (a release wakes one waiter at most).
NewlyWoken(before, after) ==
    LET woken == {j \in DOMAIN after :
                    after[j].pc = "woken" /\ before[j].pc /= "woken"}
    IN  IF woken = {} THEN <<>> ELSE <<WakeUp(CHOOSE j \in woken : TRUE)>>

\* The task of worker i ends: its slot is released (when it held one),
\* which schedules the wake-up of a waiter, and then gather's callback is
\* scheduled.
EndTask(i, w, held) ==
    LET ws == [worker EXCEPT ![i] = w]
        rel == IF held THEN Release(semaphore, ws)
               ELSE [sem |-> semaphore, ws |-> ws]
    IN  /\ worker' = rel.ws
        /\ semaphore' = rel.sem
        /\ doneq' = doneq \o NewlyWoken(ws, rel.ws) \o <<TaskDone(i)>>
        /\ finish_order' = Append(finish_order, i)

\* The worker without "async with semaphore".
StartUnbounded(i) ==
    /\ worker[i].pc = "pending"
    /\ \A j \in Workers : j < i => worker[j].pc /= "pending"
    /\ semaphore' = [semaphore EXCEPT !.value = @ - 1]
    /\ worker' = [worker EXCEPT ![i] = EnterSection(@, layer_ids[i])]
    /\ UNCHANGED <<cvars, cli, wfs>>
    /\ UNCHANGED <<layer_ids, max_workers, pages, net, folder, doneq,
                   nfinished, outer, mainpc, run, finish_order>>

\* First step of the task: "async with semaphore" either takes a slot and
\* runs up to the first request, or queues the task as a waiter.  Tasks
\* start in the order gather created them.
Start(i) ==
    /\ worker[i].pc = "pending"
    /\ \A j \in Workers : j < i => worker[j].pc /= "pending"
    /\ IF Locked(semaphore)
       THEN /\ semaphore' = [semaphore EXCEPT !.waiters = Append(@, i)]
            /\ worker' = [worker EXCEPT ![i].pc = "waiting"]
       ELSE /\ semaphore' = [semaphore EXCEPT !.value = @ - 1]
            /\ worker' = [worker EXCEPT ![i] = EnterSection(@, layer_ids[i])]
    /\ UNCHANGED <<cvars, cli, wfs>>
    /\ UNCHANGED <<layer_ids, max_workers, pages, net, folder, doneq,
                   nfinished, outer, mainpc, run, finish_order>>

\* A woken waiter resumes in acquire() when its wake-up is first in the
\* ready queue: it leaves the waiters, passes a spare slot on, and enters
\* the section.
Resume(i) ==
    /\ worker[i].pc = "woken"
    /\ ~worker[i].cancel
    /\ doneq /= <<>>
    /\ Head(doneq) = WakeUp(i)
    /\ LET sem == [semaphore EXCEPT !.waiters = RemoveWaiter(@, i)]
           ws == [worker EXCEPT ![i] = EnterSection(@, layer_ids[i])]
           nxt == IF sem.value > 0 THEN WakeUpNext(sem, ws)
                  ELSE [sem |-> sem, ws |-> ws]
       IN  /\ semaphore' = nxt.sem
           /\ worker' = nxt.ws
           /\ doneq' = Tail(doneq) \o NewlyWoken(ws, nxt.ws)
    /\ UNCHANGED <<cvars, cli, wfs>>
    /\ UNCHANGED <<layer_ids, max_workers, pages, net, folder,
                   nfinished, outer, mainpc, run, finish_order>>

\* Worker i is suspended on the network.  The loop runs the first step of
\* every task gather created before it polls the network, and a cancelled
\* task is resumed by its cancellation only.
AwaitingNetwork(i) ==
    /\ worker[i].pc = "fetch"
    /\ ~worker[i].cancel
    /\ \A j \in Workers : worker[j].pc /= "pending"

\* One attempt of _dl that fails with an error the except clause names and
\* is retried; it leaves in the file what it wrote.
Retry(i, o) ==
    /\ AwaitingNetwork(i)
    /\ o \in net[i][PageOf(worker[i].req).page]
    /\ Caught(o)
    /\ ~GiveUp(worker[i].try_number)
    /\ \E n \in Progress(o) :
          worker' = [worker EXCEPT ![i] =
             [Attempted(@) EXCEPT !.try_number = @ + 1, !.cause = Some(o),
                                  !.file = Stream(@, PageOf(worker[i].req), n)]]
    /\ UNCHANGED <<cvars, cli, wfs>>
    /\ UNCHANGED <<layer_ids, max_workers, pages, net, semaphore, folder,
                   doneq, nfinished, outer, mainpc, run, finish_order>>

\* One attempt of _dl that fails for good: the retries are used up, or the
\* error is not one the except clause names.  The exception leaves
\* download, _go_through_pages, download_and_parse_layer and the worker.
Fail(i, o) ==
    /\ AwaitingNetwork(i)
    /\ o \in net[i][PageOf(worker[i].req).page]
    /\ o /= "ok"
    /\ Caught(o) => GiveUp(worker[i].try_number)
    /\ LET w == Attempted(worker[i])
           exc == IF Caught(o) THEN DownloadError(w, o) ELSE RawError(o)
       IN  EndTask(i, [w EXCEPT !.pc = "failed", !.cause = Some(o),
                                !.result = Some(exc)], TRUE)
    /\ UNCHANGED <<cvars, cli, wfs>>
    /\ UNCHANGED <<layer_ids, max_workers, pages, net, folder, nfinished,
                   outer, mainpc, run>>

\* One attempt of _dl that succeeds on a page that carries a cursor: the
\* page is appended to dfs and the cursor is requested.
NextPage(i) ==
    /\ AwaitingNetwork(i)
    /\ LET w == worker[i]
           at == PageOf(w.req)
           next_url == pages[at.layer][at.page]
       IN  /\ "ok" \in net[i][at.page]
           /\ Truthy(next_url)
           /\ Len(w.reqs) < MaxDepth
           /\ worker' = [worker EXCEPT ![i] =
                  FollowCursor(KeepPage(Downloaded(Attempted(w), at), at),
                               next_url)]
    /\ UNCHANGED <<cvars, cli, wfs>>
    /\ UNCHANGED <<layer_ids, max_workers, pages, net, semaphore, folder,
                   doneq, nfinished, outer, mainpc, run, finish_order>>

\* At the limit of the recursion the walk returns what it has.
OverflowReturns(i) ==
    /\ AwaitingNetwork(i)
    /\ LET w == worker[i]
           at == PageOf(w.req)
           next_url == pages[at.layer][at.page]
           last == KeepPage(Downloaded(Attempted(w), at), at)
       IN  /\ "ok" \in net[i][at.page]
           /\ Truthy(next_url)
           /\ Len(w.reqs) >= MaxDepth
           /\ folder' = [folder EXCEPT ![layer_ids[i]] = Some(last.dfs)]
           /\ EndTask(i, [last EXCEPT !.pc = "done",
                                      !.result = Some(FilePath(layer_ids[i]))],
                      TRUE)
    /\ UNCHANGED <<cvars, cli, wfs>>
    /\ UNCHANGED <<layer_ids, max_workers, pages, net, nfinished, outer,
                   mainpc, run>>

\* One attempt of _dl that succeeds on a page that carries a cursor, in the
\* deepest call of _go_through_pages the interpreter allows: the page is
\* appended to dfs, the call that would follow the cursor raises
\* RecursionError, and the error leaves every call of the walk.
Overflow(i) ==
    /\ AwaitingNetwork(i)
    /\ LET w == worker[i]
           at == PageOf(w.req)
           next_url == pages[at.layer][at.page]
           last == KeepPage(Downloaded(Attempted(w), at), at)
       IN  /\ "ok" \in net[i][at.page]
           /\ Truthy(next_url)
           /\ Len(w.reqs) >= MaxDepth
           /\ EndTask(i, [last EXCEPT !.pc = "failed",
                                      !.result = Some(RawError("RecursionError"))],
                      TRUE)
    /\ UNCHANGED <<cvars, cli, wfs>>
    /\ UNCHANGED <<layer_ids, max_workers, pages, net, folder, nfinished,
                   outer, mainpc, run>>

\* One attempt of _dl that succeeds on a page without a cursor: the walk
\* returns, the pages are concatenated and saved, and the worker returns
\* the path.
LastPage(i) ==
    /\ AwaitingNetwork(i)
    /\ LET w == worker[i]
           at == PageOf(w.req)
           next_url == pages[at.layer][at.page]
           last == KeepPage(Downloaded(Attempted(w), at), at)
       IN  /\ "ok" \in net[i][at.page]
           /\ ~Truthy(next_url)
           /\ folder' = [folder EXCEPT ![layer_ids[i]] = Some(last.dfs)]
           /\ EndTask(i, [last EXCEPT !.pc = "done",
                                      !.result = Some(FilePath(layer_ids[i]))],
                      TRUE)
    /\ UNCHANGED <<cvars, cli, wfs>>
    /\ UNCHANGED <<layer_ids, max_workers, pages, net, nfinished, outer,
                   mainpc, run>>

\* ---------------------------------------------------------------- gather
\* Results in the order the tasks ended (asyncio.as_completed).
ResultsAsCompleted ==
    [j \in Workers |-> worker[finish_order[j]].result[1]]

\* The results gather hands to the outer future: one per child, in the
\* order of the children.
Results == [j \in Workers |-> worker[j].result[1]]

\* gather(..., return_exceptions=True): a failure is one more result.
DoneCallbackReturnExceptions ==
    /\ doneq /= <<>>
    /\ Head(doneq).kind = "done"
    /\ doneq' = Tail(doneq)
    /\ nfinished' = nfinished + 1
    /\ outer' =
         IF outer.state = "pending" /\ nfinished + 1 = Len(layer_ids)
         THEN [state |-> "result", exc |-> None, results |-> Results]
         ELSE outer
    /\ UNCHANGED <<cvars, cli, wfs>>
    /\ UNCHANGED <<layer_ids, max_workers, pages, net, worker, semaphore,
                   folder, mainpc, run, finish_order>>

\* gather's _done_callback for a finished task, when it is first in the
\* ready queue (return_exceptions is False).
DoneCallback ==
    /\ doneq /= <<>>
    /\ Head(doneq).kind = "done"
    /\ LET i == Head(doneq).task IN
       /\ doneq' = Tail(doneq)
       /\ nfinished' = nfinished + 1
       /\ outer' =
            IF outer.state /= "pending" THEN outer
            ELSE IF worker[i].pc = "cancelled"
            THEN [state |-> "exception", exc |-> Some(CancelledError),
                  results |-> <<>>]
            ELSE IF worker[i].pc = "failed"
            THEN [state |-> "exception", exc |-> worker[i].result,
                  results |-> <<>>]
            ELSE IF nfinished + 1 = Len(layer_ids)
            THEN [state |-> "result", exc |-> None, results |-> Results]
            ELSE outer
    /\ UNCHANGED <<cvars, cli, wfs>>
    /\ UNCHANGED <<layer_ids, max_workers, pages, net, worker, semaphore,
                   folder, mainpc, run, finish_order>>

\* return await asyncio.gather(...): the coroutine resumes once the outer
\* future is done, and returns its result or raises its exception.
AwaitGather ==
    /\ mainpc = "gather"
    /\ outer.state /= "pending"
    /\ mainpc' = IF outer.state = "result" THEN "returned" ELSE "raised"
    /\ UNCHANGED <<cvars, cli, wfs>>
    /\ UNCHANGED <<layer_ids, max_workers, pages, net, worker, semaphore,
                   folder, doneq, nfinished, outer, run, finish_order>>

\* ----------------------------------------------------------- asyncio.run
\* asyncio.run(func(**parameters)): once the coroutine is over, the runner
\* cancels every task that is still alive and runs the loop until they end.
CancelAllTasks ==
    /\ run = "running"
    /\ mainpc \in {"returned", "raised"}
    /\ run' = "closing"
    /\ worker' = [j \in Workers |->
                    IF Finished(worker[j]) THEN worker[j]
                    ELSE [worker[j] EXCEPT !.cancel = TRUE]]
    /\ UNCHANGED <<cvars, cli, wfs>>
    /\ UNCHANGED <<layer_ids, max_workers, pages, net, semaphore, folder,
                   doneq, nfinished, outer, mainpc, finish_order>>

\* A cancelled task takes its last step: CancelledError is raised at the
\* await it is suspended on.  A waiter leaves the waiters (and gives back
\* the slot it was woken with); a worker inside the section leaves through
\* the exit of "async with semaphore".
Cancelled(i) ==
    /\ worker[i].cancel
    /\ ~Finished(worker[i])
    /\ LET w == [worker[i] EXCEPT !.pc = "cancelled",
                                  !.result = Some(CancelledError)]
           held == worker[i].pc \in {"woken", "fetch"}
           ws == [worker EXCEPT ![i] = w]
           sem == [semaphore EXCEPT !.waiters = RemoveWaiter(@, i)]
           rel == IF held THEN Release(sem, ws) ELSE [sem |-> sem, ws |-> ws]
       IN  /\ worker' = rel.ws
           /\ semaphore' = rel.sem
           /\ doneq' = SelectSeq(doneq, LAMBDA e : e /= WakeUp(i))
                          \o NewlyWoken(ws, rel.ws) \o <<TaskDone(i)>>
           /\ finish_order' = Append(finish_order, i)
    /\ UNCHANGED <<cvars, cli, wfs>>
    /\ UNCHANGED <<layer_ids, max_workers, pages, net, folder, nfinished,
                   outer, mainpc, run>>

\* The runner's loop ends when every task has ended; asyncio.run then
\* returns or re-raises what the coroutine raised.
CloseLoop ==
    /\ run = "closing"
    /\ \A j \in Workers : Finished(worker[j])
    /\ doneq = <<>>
    /\ run' = "closed"
    /\ UNCHANGED <<cvars, cli, wfs>>
    /\ UNCHANGED <<layer_ids, max_workers, pages, net, worker, semaphore,
                   folder, doneq, nfinished, outer, mainpc, finish_order>>

\* ============================================================ conversion
\* convert_geoparquet_files (cli.py) and the documents of ortho/parsing.py.
\* A Python value that the code iterates, compares or indexes is kept with
\* its type: a str holds its characters, a list holds its items.

Ch == [dash |-> 45, colon |-> 58, T |-> 84, plus |-> 43, dot |-> 46]
Digit(d) == 48 + d

Str(chars) == [type |-> "str", chars |-> chars, items |-> <<>>]
List(items) == [type |-> "list", chars |-> <<>>, items |-> items]

\* for elem in v: the characters of a str (each a str of length one), the
\* items of a list.
Iter(v) ==
    IF v.type = "str"
    THEN [k \in 1..Len(v.chars) |-> Str(<<v.chars[k]>>)]
    ELSE v.items

\* v[0]
First(v) == Iter(v)[1]

\* a < b on the characters of two str: the first difference decides, a
\* proper prefix is smaller.
CharsLess(a, b) ==
    \E k \in 1..Len(b) :
        /\ \A j \in 1..(k - 1) : j <= Len(a) /\ a[j] = b[j]
        /\ \/ k = Len(a) + 1
           \/ k <= Len(a) /\ a[k] < b[k]

\* min(seq) and max(seq) of str values (the first of equal ones).
PyMin(seq) ==
    seq[Min({k \in 1..Len(seq) :
                \A j \in 1..Len(seq) : ~CharsLess(seq[j].chars, seq[k].chars)})]
PyMax(seq) ==
    seq[Min({k \in 1..Len(seq) :
                \A j \in 1..Len(seq) : ~CharsLess(seq[k].chars, seq[j].chars)})]

Digits2(n) == <<Digit(n \div 10), Digit(n % 10)>>
Digits4(n) == Digits2(n \div 100) \o Digits2(n % 100)
Digits6(n) == Digits2(n \div 10000) \o Digits4(n % 10000)

\* The number a run of digit characters spells.
RECURSIVE Number(_)
Number(chars) ==
    IF chars = <<>> THEN 0
    ELSE 10 * Number(SubSeq(chars, 1, Len(chars) - 1))
         + (chars[Len(chars)] - Digit(0))

\* A timePosition of the service: the date "YYYY-MM-DD".
DateStr(y, m, d) ==
    Str(Digits4(y) \o <<Ch.dash>> \o Digits2(m) \o <<Ch.dash>> \o Digits2(d))

\* datetime.fromisoformat of a date: midnight of that day, naive.
FromIsoFormat(v) ==
    [y |-> Number(SubSeq(v.chars, 1, 4)), mo |-> Number(SubSeq(v.chars, 6, 7)),
     d |-> Number(SubSeq(v.chars, 9, 10)), h |-> 0, mi |-> 0, s |-> 0, us |-> 0]

DaysIn(y, m) ==
    IF m = 2
    THEN (IF y % 4 = 0 /\ (y % 100 /= 0 \/ y % 400 = 0) THEN 29 ELSE 28)
    ELSE IF m \in {4, 6, 9, 11} THEN 30 ELSE 31

\* Nothing is added: the end is the instant itself.
SameInstant(dt) == dt

\* dt + timedelta(days=1, microseconds=-1) for a dt at midnight: the last
\* microsecond of the same day.
EndOfDay(dt) == [dt EXCEPT !.h = 23, !.mi = 59, !.s = 59, !.us = 999999]

\* The day of the week of a date, 0 being Sunday.
DayOfWeek(y, m, d) ==
    LET t == <<0, 3, 2, 5, 0, 3, 5, 1, 4, 6, 2, 4>>
        yy == IF m < 3 THEN y - 1 ELSE y
    IN  (yy + (yy \div 4) - (yy \div 100) + (yy \div 400) + t[m] + d) % 7

\* The last Sunday of March or of October (months of 31 days).
LastSunday(y, m) == 31 - DayOfWeek(y, m, 31)

\* tz = pytz.timezone("Europe/Warsaw"); tz.localize(dt) gives a wall clock
\* time its offset from UTC in hours: summer time runs from the last Sunday
\* of March, 03:00, to the last Sunday of October, 02:00 (the rule in force
\* for the years of the model); a wall clock time that does not exist or
\* exists twice is taken as standard time (is_dst=False).
UtcOffset(dt) ==
    LET begun == \/ dt.mo > 3
                 \/ /\ dt.mo = 3
                    /\ \/ dt.d > LastSunday(dt.y, 3)
                       \/ dt.d = LastSunday(dt.y, 3) /\ dt.h >= 3
        ended == \/ dt.mo > 10
                 \/ /\ dt.mo = 10
                    /\ \/ dt.d > LastSunday(dt.y, 10)
                       \/ dt.d = LastSunday(dt.y, 10) /\ dt.h >= 2
    IN  IF begun /\ ~ended THEN 2 ELSE 1

\* tz.localize(dt).astimezone(tz=UTC)
ToUTC(dt) ==
    LET off == UtcOffset(dt) IN
    IF dt.h >= off THEN [dt EXCEPT !.h = @ - off]
    ELSE IF dt.d > 1 THEN [dt EXCEPT !.h = @ + 24 - off, !.d = @ - 1]
    ELSE IF dt.mo > 1
    THEN [dt EXCEPT !.h = @ + 24 - off, !.mo = @ - 1,
                    !.d = DaysIn(dt.y, dt.mo - 1)]
    ELSE [dt EXCEPT !.h = @ + 24 - off, !.y = @ - 1, !.mo = 12, !.d = 31]

\* datetime.isoformat() of a UTC datetime: the microseconds are written
\* only when they are not zero.
IsoFormat(dt) ==
    Str(Digits4(dt.y) \o <<Ch.dash>> \o Digits2(dt.mo) \o <<Ch.dash>>
        \o Digits2(dt.d) \o <<Ch.T>> \o Digits2(dt.h) \o <<Ch.colon>>
        \o Digits2(dt.mi) \o <<Ch.colon>> \o Digits2(dt.s)
        \o (IF dt.us = 0 THEN <<>> ELSE <<Ch.dot>> \o Digits6(dt.us))
        \o <<Ch.plus>> \o Digits2(0) \o <<Ch.colon>> \o Digits2(0))

\* ---------------------------------------------------- documents and paths
\* A relative address: the number of ".." steps, the directory entered (an
\* id) if any, and the file.
Href(up, dir, file) == [up |-> up, dir |-> dir, file |-> file]

NodeId(base, year) == [base |-> base, year |-> year]
ID_CATALOG == NodeId("poland.gugik", <<>>)
ID_COLLECTION_ORTHO == NodeId("poland.gugik.ortho", <<>>)

\* A title: a fixed text, or the year label of a sub-collection.
Title(text, year) == [text |-> text, year |-> year]

Link(rel, href, title) == [rel |-> rel, href |-> href, title |-> title]

\* gdf["timePosition"]
TimePositions(gdf) == [k \in 1..Len(gdf) |-> gdf[k].timePosition]

\* calculate_extent(gdf)["temporal"]: dict(interval=[min_ts, max_ts]), the
\* two bounds as str.
TemporalExtent(gdf) ==
    LET min_ts == ToUTC(FromIsoFormat(PyMin(TimePositions(gdf))))
        max_ts == ToUTC(EndOfDay(FromIsoFormat(PyMax(TimePositions(gdf)))))
    IN  [interval |-> List(<<IsoFormat(min_ts), IsoFormat(max_ts)>>)]

\* features_as_items: ymin, xmin = lowerCorner.split(" "), ymax, xmax =
\* upperCorner.split(" "); bbox = [xmin, ymin, xmax, ymax].  A corner is
\* kept as its two numbers in the order the service writes them.
BBoxUnswapped(feature) ==
    <<feature.lowerCorner[1], feature.lowerCorner[2],
      feature.upperCorner[1], feature.upperCorner[2]>>

BBox(feature) ==
    <<feature.lowerCorner[2], feature.lowerCorner[1],
      feature.upperCorner[2], feature.upperCorner[1]>>

Max(S) == CHOOSE x \in S : \A y \in S : x >= y

\* The bounds of the first geometry only.
TotalBoundsOfFirst(gdf) == gdf[1].geometry

\* gdf.total_bounds: (xmin, ymin, xmax, ymax) over the geometries.
TotalBounds(gdf) ==
    LET rows == 1..Len(gdf) IN
    <<Min({gdf[k].geometry[1] : k \in rows}),
      Min({gdf[k].geometry[2] : k \in rows}),
      Max({gdf[k].geometry[3] : k \in rows}),
      Max({gdf[k].geometry[4] : k \in rows})>>

\* calculate_extent(gdf): the spatial and the temporal extent.
CalculateExtent(gdf) ==
    [spatial |-> [bbox |-> <<TotalBounds(gdf)>>],
     temporal |-> TemporalExtent(gdf)]

\* year_values = gdf["akt_rok"].unique()
YearValues(gdf) == {gdf[k].akt_rok : k \in 1..Len(gdf)}

\* The label is always the smallest year.
CollectionYearOfMin(gdf) == <<Min(YearValues(gdf))>>

\* collection_year: str(year) for one year, f"{year_min}-{year_max}" for
\* more; the label is kept as the numbers it is written from.
CollectionYear(gdf) ==
    LET year_values == YearValues(gdf) IN
    IF Cardinality(year_values) = 1 THEN <<Min(year_values)>>
    ELSE <<Min(year_values), Max(year_values)>>

\* ID_SUBCOLLECTION_ORTHO_TEMPLATE.format(year=collection_year)
ID_SUBCOLLECTION_ORTHO_TEMPLATE(year) == NodeId(ID_COLLECTION_ORTHO.base, year)

\* description: "Arkusze ortofotomapy z roku: ..." for one year, "... z
\* lat: ..." for a range.
Description(gdf) ==
    [text |-> IF Cardinality(YearValues(gdf)) = 1 THEN "z roku" ELSE "z lat",
     year |-> CollectionYear(gdf)]

\* f"{item['id']}.json"
ItemFile(id) == id \o ".json"

\* The "datetime" of an item: its timePosition, localized and in UTC.
ItemDatetime(feature) == IsoFormat(ToUTC(FromIsoFormat(feature.timePosition)))

\* features_as_items: the item of one feature.  Its title names the sheet.
Item(feature, collection_id) ==
    [id |-> feature.gml_id,
     bbox |-> BBox(feature),
     properties |-> [datetime |-> ItemDatetime(feature),
                     title |-> Title(feature.godlo, <<>>)],
     collection |-> collection_id,
     links |-> <<Link("root", Href(2, None, "catalog.json"), None),
                 Link("parent", Href(0, None, "collection.json"), None)>>]

\* items = list(features_as_items(features=gdf, collection_id=collection_id))
Items(gdf) ==
    [k \in 1..Len(gdf) |->
        Item(gdf[k], ID_SUBCOLLECTION_ORTHO_TEMPLATE(CollectionYear(gdf)))]

\* dict(rel="item", href=f"./{i['id']}.json", title=i["properties"]["title"])
ItemLink(i) ==
    Link("item", Href(0, None, ItemFile(i.id)), Some(i.properties.title))

\* geoparquet_to_collection(gdf): the sub-collection document.
SubCollection(gdf) ==
    [id |-> ID_SUBCOLLECTION_ORTHO_TEMPLATE(CollectionYear(gdf)),
     title |-> Title("", CollectionYear(gdf)),
     description |-> Description(gdf),
     extent |-> CalculateExtent(gdf),
     links |-> <<Link("root", Href(2, None, "catalog.json"), None),
                 Link("parent", Href(1, None, "collection.json"), None)>>
               \o [k \in 1..Len(gdf) |-> ItemLink(Items(gdf)[k])]]

\* The value appended to the collection's temporal intervals for one
\* sub-collection: sub_collection["extent"]["temporal"]["interval"][0].
IntervalEntry(sub) == First(sub.extent.temporal.interval)

\* interval_values = [elem for interval in intervals for elem in interval]
RECURSIVE Flatten(_)
Flatten(intervals) ==
    IF intervals = <<>> THEN <<>>
    ELSE Iter(Head(intervals)) \o Flatten(Tail(intervals))

\* covering_interval = [min(interval_values), max(interval_values)]
CoveringInterval(intervals) ==
    List(<<PyMin(Flatten(intervals)), PyMax(Flatten(intervals))>>)

\* ------------------------------------------------- the fixed documents
\* get_main_catalog(): the links of the catalog document.
MainCatalog ==
    [id |-> ID_CATALOG,
     links |-> <<Link("root", Href(0, None, "catalog.json"), None)>>]

\* A coordinate in degrees: the whole degrees and the decimal digits after
\* the point.
Degrees(whole, digits) == [whole |-> whole, digits |-> digits]

\* BBOX_POLAND = [14.0745211117, 49.0273953314, 24.0299857927, 54.8515359564]
BBOX_POLAND ==
    <<Degrees(14, <<0, 7, 4, 5, 2, 1, 1, 1, 1, 7>>),
      Degrees(49, <<0, 2, 7, 3, 9, 5, 3, 3, 1, 4>>),
      Degrees(24, <<0, 2, 9, 9, 8, 5, 7, 9, 2, 7>>),
      Degrees(54, <<8, 5, 1, 5, 3, 5, 9, 5, 6, 4>>)>>

\* get_main_collection(): the spatial extent, the links and the temporal
\* intervals of the main collection document.
MainCollection ==
    [id |-> ID_COLLECTION_ORTHO,
     title |-> Title("Ortofotomapy", <<>>),
     bbox |-> <<BBOX_POLAND>>,
     links |-> <<Link("root", Href(1, None, "catalog.json"), None)>>,
     interval |-> <<>>]

NoDocument == [id |-> NodeId("", <<>>), links |-> <<>>]

IdleConvert ==
    /\ input_folder = [kind |-> "missing", files |-> <<>>]
    /\ output_folder = [exists |-> FALSE, old |-> FALSE, subdirs |-> <<>>,
                        collection_file |-> None, catalog_file |-> None]
    /\ catalog = NoDocument
    /\ ortho_collection = NoDocument
    /\ cpc = "idle"
    /\ nfile = 0

\* ---------------------------------------------- convert_geoparquet_files
\* The output directory is prepared before the input is looked at.
ConvertRejectedAfterOutput ==
    /\ cpc = "start"
    /\ input_folder.kind /= "dir" \/ input_folder.files = <<>>
    /\ output_folder' = [output_folder EXCEPT !.exists = TRUE, !.old = FALSE]
    /\ cpc' = "raised"
    /\ UNCHANGED <<dvars, cli, wfs>>
    /\ UNCHANGED <<input_folder, catalog, ortho_collection, nfile>>

\* The input checks fail: the path is missing or no directory, or holds no
\* parquet file.
ConvertRejected ==
    /\ cpc = "start"
    /\ input_folder.kind /= "dir" \/ input_folder.files = <<>>
    /\ cpc' = "raised"
    /\ UNCHANGED <<dvars, cli, wfs>>
    /\ UNCHANGED <<input_folder, output_folder, catalog, ortho_collection,
                   nfile>>

\* The input checks pass: the output directory is emptied or created, the
\* collection directory is made and the two documents are begun.
ConvertBegin ==
    /\ cpc = "start"
    /\ input_folder.kind = "dir"
    /\ input_folder.files /= <<>>
    /\ output_folder' = [output_folder EXCEPT !.exists = TRUE, !.old = FALSE]
    /\ catalog' = [MainCatalog EXCEPT !.links = Append(@,
          Link("child", Href(0, Some(ID_COLLECTION_ORTHO), "collection.json"),
               Some(MainCollection.title)))]
    /\ ortho_collection' = MainCollection
    /\ cpc' = "loop"
    /\ nfile' = 1
    /\ UNCHANGED <<dvars, cli, wfs>>
    /\ UNCHANGED input_folder

\* The sub-collection ids that have a directory under the collection.
SubDirIds == {output_folder.subdirs[k].id : k \in 1..Len(output_folder.subdirs)}

\* The child link put before the links already there.
TakeInFront(coll, sub) ==
    [coll EXCEPT !.links = <<Link("child", Href(0, Some(sub.id), "collection.json"),
                                  Some(sub.title))>> \o @,
                 !.interval = Append(@, IntervalEntry(sub))]

\* The collection document after the loop body has taken in one
\* sub-collection: its child link and its entry in the temporal intervals.
TakeIn(coll, sub) ==
    [coll EXCEPT !.links = Append(@,
                    Link("child", Href(0, Some(sub.id), "collection.json"),
                         Some(sub.title))),
                 !.interval = Append(@, IntervalEntry(sub))]

\* What the loop body writes under the directory of one sub-collection:
\* collection.json and one file per item, named by the item's id.
SubCollectionDir(sub, items) ==
    [id |-> sub.id, collection_file |-> sub, item_files |-> items]

\* One turn of the loop over the parquet files: the sub-collection is
\* built, taken into the collection, and written into a directory of its
\* own.
ConvertFile ==
    /\ cpc = "loop"
    /\ nfile <= Len(input_folder.files)
    /\ LET gdf == input_folder.files[nfile]
           sub == SubCollection(gdf)
       IN  /\ gdf /= <<>>
           /\ sub.id \notin SubDirIds
           /\ ortho_collection' = TakeIn(ortho_collection, sub)
           /\ output_folder' = [output_folder EXCEPT !.subdirs =
                  Append(@, SubCollectionDir(sub, Items(gdf)))]
    /\ nfile' = nfile + 1
    /\ UNCHANGED <<dvars, cli, wfs>>
    /\ UNCHANGED <<input_folder, catalog, cpc>>

\* One turn of the loop on a file without rows: geoparquet_to_collection
\* raises (there is no timePosition to parse and no year to label with).
ConvertFileEmpty ==
    /\ cpc = "loop"
    /\ nfile <= Len(input_folder.files)
    /\ input_folder.files[nfile] = <<>>
    /\ cpc' = "raised"
    /\ UNCHANGED <<dvars, cli, wfs>>
    /\ UNCHANGED <<input_folder, output_folder, catalog, ortho_collection,
                   nfile>>

\* The directory that is already there is written into again.
ConvertFileExistsOk ==
    /\ cpc = "loop"
    /\ nfile <= Len(input_folder.files)
    /\ LET gdf == input_folder.files[nfile]
           sub == SubCollection(gdf)
       IN  /\ gdf /= <<>>
           /\ sub.id \in SubDirIds
           /\ ortho_collection' = TakeIn(ortho_collection, sub)
           /\ output_folder' = [output_folder EXCEPT !.subdirs =
                  Append(@, SubCollectionDir(sub, Items(gdf)))]
    /\ nfile' = nfile + 1
    /\ UNCHANGED <<dvars, cli, wfs>>
    /\ UNCHANGED <<input_folder, catalog, cpc>>

\* One turn of the loop whose sub-collection id already has a directory:
\* sub_collection_dir.mkdir() raises FileExistsError.
ConvertFileExists ==
    /\ cpc = "loop"
    /\ nfile <= Len(input_folder.files)
    /\ LET gdf == input_folder.files[nfile]
           sub == SubCollection(gdf)
       IN  /\ gdf /= <<>>
           /\ sub.id \in SubDirIds
           /\ ortho_collection' = TakeIn(ortho_collection, sub)
    /\ cpc' = "raised"
    /\ UNCHANGED <<dvars, cli, wfs>>
    /\ UNCHANGED <<input_folder, output_folder, catalog, nfile>>

\* After the loop: the covering interval is put first and the collection
\* and the catalog are written.
ConvertFinish ==
    /\ cpc = "loop"
    /\ nfile > Len(input_folder.files)
    /\ LET done == [ortho_collection EXCEPT !.interval =
                      <<CoveringInterval(ortho_collection.interval)>> \o @]
       IN  /\ ortho_collection' = done
           /\ output_folder' = [output_folder EXCEPT
                                  !.collection_file = Some(done),
                                  !.catalog_file = Some(catalog)]
    /\ cpc' = "done"
    /\ UNCHANGED <<dvars, cli, wfs>>
    /\ UNCHANGED <<input_folder, catalog, nfile>>

\* The main collection as the loop leaves it after the given files, taken
\* in the given order.
RECURSIVE TakeInAll(_, _)
TakeInAll(coll, files) ==
    IF files = <<>> THEN coll
    ELSE TakeInAll(TakeIn(coll, SubCollection(Head(files))), Tail(files))

\* The main collection document convert_geoparquet_files writes when glob
\* yields the given files in the given order.
ComposedCollection(files) ==
    LET coll == TakeInAll(MainCollection, files)
    IN  [coll EXCEPT !.interval = <<CoveringInterval(coll.interval)>> \o @]

\* ------------------------------------------------------------------ init
\* The server's pages of one layer: a chain of n pages, each but the last
\* naming the next one.
Chain(l, n) == [p \in 1..n |-> IF p < n THEN NextUrl(l, p + 1) ELSE EmptyStr]

InitCall(ids, k) ==
    /\ layer_ids = ids
    /\ max_workers = k
    /\ worker = [i \in 1..Len(ids) |-> InitWorker]
    /\ semaphore = [value |-> k, waiters |-> <<>>]
    /\ folder = [l \in LayerIds |-> None]
    /\ doneq = <<>>
    /\ nfinished = 0
    /\ outer = [state |-> "pending", exc |-> None, results |-> <<>>]
    /\ mainpc = "gather"
    /\ run = "running"
    /\ finish_order = <<>>
    /\ IdleConvert
    /\ cli = NoCli
    /\ wfs = NoWfs

\* One layer, the last of the ids, walked against a server and a network
\* that may answer every attempt in every way.
InitWalk ==
    /\ InitCall(<<MaxLayers>>, 1)
    /\ \E n \in 1..MaxPages : pages = [l \in LayerIds |-> Chain(l, n)]
    /\ net = [i \in 1..1 |-> [p \in 1..MaxPages |-> Outcomes]]

\* The dispatcher over MaxLayers layers of MaxPages pages each.  The
\* network is sound but for one page number, where an attempt may hit a
\* local file error and, for one of the workers, may also find the
\* connection reset.
Init ==
    /\ \E k \in 1..MaxLayers : InitCall([i \in 1..MaxLayers |-> i], k)
    /\ pages = [l \in LayerIds |-> Chain(l, MaxPages)]
    /\ \E v \in 1..MaxLayers, b \in 1..MaxPages :
          net = [i \in 1..MaxLayers |-> [p \in 1..MaxPages |->
                   IF p /= b THEN {"ok"}
                   ELSE IF i = v THEN {"ok", "reset", "oserror"}
                   ELSE {"ok", "oserror"}]]

\* A single walk: one worker, which never waits and is never cancelled.
NextWalk ==
    \/ \E i \in Workers : Start(i)
    \/ \E i \in Workers, o \in Outcomes : Retry(i, o)
    \/ \E i \in Workers, o \in Outcomes : Fail(i, o)
    \/ \E i \in Workers : NextPage(i)
    \/ \E i \in Workers : LastPage(i)
    \/ DoneCallback
    \/ AwaitGather
    \/ CancelAllTasks
    \/ CloseLoop

SpecWalk == InitWalk /\ [][NextWalk]_vars

Next ==
    \/ \E i \in Workers : Start(i)
    \/ \E i \in Workers : Resume(i)
    \/ \E i \in Workers, o \in Outcomes : Retry(i, o)
    \/ \E i \in Workers, o \in Outcomes : Fail(i, o)
    \/ \E i \in Workers : NextPage(i)
    \/ \E i \in Workers : LastPage(i)
    \/ \E i \in Workers : Cancelled(i)
    \/ DoneCallback
    \/ AwaitGather
    \/ CancelAllTasks
    \/ CloseLoop

Spec == Init /\ [][Next]_vars

\* The dispatcher with a single slot over MaxQueued layers: all but one of
\* the workers wait.  The network is that of Init.
InitQueue ==
    /\ InitCall([i \in 1..MaxQueued |-> i], 1)
    /\ pages = [l \in LayerIds |-> Chain(l, MaxPages)]
    /\ \E v \in 1..MaxQueued, b \in 1..MaxPages :
          net = [i \in 1..MaxQueued |-> [p \in 1..MaxPages |->
                   IF p /= b THEN {"ok"}
                   ELSE IF i = v THEN {"ok", "reset", "oserror"}
                   ELSE {"ok", "oserror"}]]

SpecQueue == InitQueue /\ [][Next]_vars

\* The pages of a server that hands out a repeating cursor: n pages, the
\* last of which names page c again.
Cycle(l, n, c) == [p \in 1..n |-> IF p < n THEN NextUrl(l, p + 1) ELSE NextUrl(l, c)]

\* The dispatcher over MaxLayers layers on a sound network; the server's
\* cursors of one of the layers repeat.
InitCycle ==
    /\ \E k \in 1..MaxLayers : InitCall([i \in 1..MaxLayers |-> i], k)
    /\ \E v \in 1..MaxLayers, n \in 1..MaxPages : \E c \in 1..n :
          pages = [l \in LayerIds |->
                     IF l = v THEN Cycle(l, n, c) ELSE Chain(l, MaxPages)]
    /\ net = [i \in 1..MaxLayers |-> [p \in 1..MaxPages |-> {"ok"}]]

NextCycle ==
    \/ \E i \in Workers : Start(i)
    \/ \E i \in Workers : Resume(i)
    \/ \E i \in Workers : NextPage(i)
    \/ \E i \in Workers : LastPage(i)
    \/ \E i \in Workers : Overflow(i)
    \/ \E i \in Workers : Cancelled(i)
    \/ DoneCallback
    \/ AwaitGather
    \/ CancelAllTasks
    \/ CloseLoop

SpecCycle == InitCycle /\ [][NextCycle]_vars

\* No download is going on.
IdleDownload ==
    /\ layer_ids = <<>>
    /\ max_workers = 0
    /\ pages = <<>>
    /\ net = <<>>
    /\ worker = <<>>
    /\ semaphore = [value |-> 0, waiters |-> <<>>]
    /\ folder = [l \in LayerIds |-> None]
    /\ doneq = <<>>
    /\ nfinished = 0
    /\ outer = [state |-> "pending", exc |-> None, results |-> <<>>]
    /\ mainpc = "idle"
    /\ run = "idle"
    /\ finish_order = <<>>

\* The rows the batches of the model are made of: features of the service,
\* each with an id of its own, its year, the day it was taken (a summer
\* day, a winter day at the turn of a year, the day summer time begins) and
\* the envelope of its geometry, which the service writes as "lat lon".
Features ==
    {[gml_id |-> "orto.1", godlo |-> "M-34-1", akt_rok |-> 2020,
      timePosition |-> DateStr(2020, 6, 15),
      lowerCorner |-> <<50, 19>>, upperCorner |-> <<51, 20>>,
      geometry |-> <<19, 50, 20, 51>>],
     [gml_id |-> "orto.2", godlo |-> "N-34-2", akt_rok |-> 2021,
      timePosition |-> DateStr(2021, 1, 1),
      lowerCorner |-> <<52, 21>>, upperCorner |-> <<53, 22>>,
      geometry |-> <<21, 52, 22, 53>>],
     [gml_id |-> "orto.3", godlo |-> "N-33-3", akt_rok |-> 2021,
      timePosition |-> DateStr(2021, 3, 28),
      lowerCorner |-> <<49, 20>>, upperCorner |-> <<54, 21>>,
      geometry |-> <<20, 49, 21, 54>>]}

\* The non-empty sequences over S of at most n elements.
SeqsUpTo(S, n) == UNION {[1..k -> S] : k \in 1..n}

\* The contents a parquet file may have: no row, or up to MaxRows features,
\* each at most once.
Batches ==
    {<<>>} \cup {gdf \in SeqsUpTo(Features, MaxRows) :
                    \A j, k \in 1..Len(gdf) : j /= k => gdf[j] /= gdf[k]}

\* A conversion of any input path (missing, a file, or a directory of up to
\* MaxFiles parquet files, in the order glob yields them) into any output path (missing,
\* empty, or holding earlier contents).
InitConvert ==
    /\ IdleDownload
    /\ cli = NoCli
    /\ wfs = NoWfs
    /\ \/ \E k \in {"missing", "file"} :
             input_folder = [kind |-> k, files |-> <<>>]
       \/ \E fs \in {<<>>} \cup SeqsUpTo(Batches, MaxFiles) :
             input_folder = [kind |-> "dir", files |-> fs]
    /\ \E e \in {<<FALSE, FALSE>>, <<TRUE, FALSE>>, <<TRUE, TRUE>>} :
          output_folder = [exists |-> e[1], old |-> e[2], subdirs |-> <<>>,
                           collection_file |-> None, catalog_file |-> None]
    /\ catalog = NoDocument
    /\ ortho_collection = NoDocument
    /\ cpc = "start"
    /\ nfile = 0

NextConvert ==
    \/ ConvertRejected
    \/ ConvertBegin
    \/ ConvertFile
    \/ ConvertFileEmpty
    \/ ConvertFileExists
    \/ ConvertFinish

SpecConvert == InitConvert /\ [][NextConvert]_vars

\* ----------------------------------------------------------- wfs_service
\* Retries once more than max_retries allows.
MayRetryOnceMore(try_number, max_retries) == try_number <= max_retries + 1

\* if try_number <= max_retries: return _get_service(try_number)
MayRetry(try_number, max_retries) == try_number <= max_retries

\* The handle a successful connection gives: a new object, named by the
\* number of the connection attempt that made it.
Handle(n) == [type |-> "WebFeatureService", id |-> n]

\* What a call of wfs_service ends with.
Returned(h) == [kind |-> "return", value |-> Some(h), cause |-> None]
Raised(type, cause) == [kind |-> type, value |-> None, cause |-> cause]

InitWfs ==
    /\ IdleDownload
    /\ IdleConvert
    /\ cli = NoCli
    /\ wfs = NoWfs

\* wfs_service() when _service is set: it is returned.
WfsCached ==
    /\ wfs.pc = "idle"
    /\ Len(wfs.results) < MaxCalls
    /\ wfs.service /= None
    /\ wfs' = [wfs EXCEPT !.results = Append(@, Returned(wfs.service[1])),
                          !.attempts = 0, !.cause = None]
    /\ UNCHANGED <<dvars, cvars, cli>>

\* wfs_service(max_retries) when _service is None: _get_service() is
\* called and its try_number becomes 1.
WfsCall ==
    /\ wfs.pc = "idle"
    /\ Len(wfs.results) < MaxCalls
    /\ wfs.service = None
    /\ \E m \in 0..default_max_retries :
          wfs' = [wfs EXCEPT !.pc = "connecting", !.try_number = 1,
                            !.max_retries = m, !.attempts = 0, !.cause = None]
    /\ UNCHANGED <<dvars, cvars, cli>>

\* WebFeatureService(...) connects: the handle is stored in _service and
\* returned.
WfsConnected ==
    /\ wfs.pc = "connecting"
    /\ LET h == Handle(wfs.connections + 1)
       IN  wfs' = [wfs EXCEPT !.pc = "idle", !.service = Some(h),
                             !.attempts = @ + 1, !.connections = @ + 1,
                             !.results = Append(@, Returned(h))]
    /\ UNCHANGED <<dvars, cvars, cli>>

\* WebFeatureService(...) raises ConnectionError and there are retries
\* left: _get_service(try_number) is called.
WfsRetry ==
    /\ wfs.pc = "connecting"
    /\ MayRetry(wfs.try_number, wfs.max_retries)
    /\ wfs' = [wfs EXCEPT !.try_number = @ + 1, !.attempts = @ + 1,
                          !.connections = @ + 1,
                          !.cause = Some("ConnectionError")]
    /\ UNCHANGED <<dvars, cvars, cli>>

\* WebFeatureService(...) raises ConnectionError and no retry is left:
\* raise Exception("Max number of retries reached.") from e; _service is
\* not assigned.
WfsGiveUp ==
    /\ wfs.pc = "connecting"
    /\ ~MayRetry(wfs.try_number, wfs.max_retries)
    /\ wfs' = [wfs EXCEPT !.pc = "idle", !.attempts = @ + 1,
                          !.connections = @ + 1,
                          !.cause = Some("ConnectionError"),
                          !.results = Append(@,
                              Raised("Exception", Some("ConnectionError")))]
    /\ UNCHANGED <<dvars, cvars, cli>>

\* WebFeatureService(...) raises an error the except clause does not name
\* (a timeout, an error status, a document that does not parse): it
\* leaves wfs_service as it is; _service is not assigned.
WfsError ==
    /\ wfs.pc = "connecting"
    /\ \E e \in {"Timeout", "HTTPError", "ParseError"} :
          wfs' = [wfs EXCEPT !.pc = "idle", !.attempts = @ + 1,
                            !.connections = @ + 1,
                            !.results = Append(@, Raised(e, None))]
    /\ UNCHANGED <<dvars, cvars, cli>>

NextWfs ==
    \/ WfsCached
    \/ WfsCall
    \/ WfsConnected
    \/ WfsRetry
    \/ WfsGiveUp
    \/ WfsError

SpecWfs == InitWfs /\ [][NextWfs]_vars

\* ------------------------------------------------------------------- cli
\* Folder names given on the command line.
Folders == {"data", "out"}

\* get_wfs_layer_ids(): the ids of the layers the service lists.
get_wfs_layer_ids == [i \in 1..MaxLayers |-> i]

\* max_workers: int = 3
default_max_workers == 3

\* The Namespace parse_args gives for each subcommand: log_level, the dests
\* of the subcommand's arguments, and func and action of its set_defaults.
ParsedArgs ==
    {[log_level |-> "INFO", func |-> "download_and_save_to_geoparquet",
      action |-> "download", layer_ids |-> ids, output_folder |-> d] :
        ids \in SeqsUpTo(1..MaxLayers, MaxLayers), d \in Folders}
    \cup {[log_level |-> "INFO", func |-> "download_all",
           action |-> "download_all", output_folder |-> d] : d \in Folders}
    \cup {[log_level |-> "INFO", func |-> "lambda", action |-> "layer_ids"]}
    \cup {[log_level |-> "INFO", func |-> "convert_geoparquet_files",
           action |-> "convert_geoparquet", input_folder |-> i,
           output_folder |-> o] : i \in Folders, o \in Folders}

\* parameters = args.__dict__.copy() without log_level, func and action
Parameters(args) ==
    [n \in DOMAIN args \ {"log_level", "func", "action"} |-> args[n]]

\* The parameters of the functions the subcommands are bound to, and those
\* of them that have no default.
Signature(func) ==
    CASE func = "download_and_save_to_geoparquet" ->
           [all |-> {"layer_ids", "output_directory", "max_workers",
                     "download_kwargs", "save_kwargs"},
            required |-> {"layer_ids", "output_directory"}]
      [] func = "download_all" ->
           [all |-> {"output_folder"}, required |-> {"output_folder"}]
      [] func = "convert_geoparquet_files" ->
           [all |-> {"input_folder", "output_folder"},
            required |-> {"input_folder", "output_folder"}]
      [] OTHER -> [all |-> {}, required |-> {}]

\* func(**parameters) binds: every keyword is a parameter of func and every
\* parameter without a default is given; otherwise the call is a TypeError.
Binds(func, kwargs) ==
    /\ DOMAIN kwargs \subseteq Signature(func).all
    /\ Signature(func).required \subseteq DOMAIN kwargs

iscoroutinefunction(func) ==
    func \in {"download_and_save_to_geoparquet", "download_all"}

\* The call of download_and_save_to_geoparquet that func(**kwargs) comes to:
\* its own parameters, or those download_all gives it.
Dispatch(func, kwargs) ==
    IF func = "download_all"
    THEN [layer_ids |-> get_wfs_layer_ids,
          output_directory |-> kwargs.output_folder,
          max_workers |-> default_max_workers]
    ELSE [layer_ids |-> IF "layer_ids" \in DOMAIN kwargs
                        THEN kwargs.layer_ids ELSE <<>>,
          output_directory |-> IF "output_directory" \in DOMAIN kwargs
                               THEN kwargs.output_directory ELSE "",
          max_workers |-> default_max_workers]

\* main after parse_args: nothing has been called yet.
InitCli ==
    /\ IdleDownload
    /\ IdleConvert
    /\ wfs = NoWfs
    /\ \E a \in ParsedArgs :
          cli = [NoCli EXCEPT !.pc = "parsed", !.args = Some(a)]

\* func(**parameters) does not bind: TypeError, and nothing is run.
MainTypeError ==
    /\ cli.pc = "parsed"
    /\ LET args == cli.args[1] IN
       /\ ~Binds(args.func, Parameters(args))
       /\ cli' = [cli EXCEPT !.pc = "raised", !.exc = Some("TypeError")]
    /\ UNCHANGED <<dvars, cvars, wfs>>

\* asyncio.run(func(**parameters)): the dispatcher begins, in a network
\* like that of Init.
MainAsync ==
    /\ cli.pc = "parsed"
    /\ LET args == cli.args[1]
           kwargs == Parameters(args)
           d == Dispatch(args.func, kwargs)
           n == Len(d.layer_ids)
       IN  /\ iscoroutinefunction(args.func)
           /\ Binds(args.func, kwargs)
           /\ cli' = [cli EXCEPT !.pc = "running",
                 !.call = Some([func |-> args.func, kwargs |-> kwargs]),
                 !.dispatch = Some(d)]
           /\ layer_ids' = d.layer_ids
           /\ max_workers' = d.max_workers
           /\ worker' = [i \in 1..n |-> InitWorker]
           /\ semaphore' = [value |-> d.max_workers, waiters |-> <<>>]
           /\ pages' = [l \in LayerIds |-> Chain(l, MaxPages)]
           /\ \E v \in 1..n, b \in 1..MaxPages :
                 net' = [i \in 1..n |-> [p \in 1..MaxPages |->
                           IF p /= b THEN {"ok"}
                           ELSE IF i = v THEN {"ok", "reset", "oserror"}
                           ELSE {"ok", "oserror"}]]
           /\ mainpc' = "gather"
           /\ run' = "running"
    /\ UNCHANGED <<folder, doneq, nfinished, outer, finish_order>>
    /\ UNCHANGED <<cvars, wfs>>

\* func(**parameters) for convert_geoparquet_files: the conversion begins,
\* over whatever is at the two paths.
MainConvert ==
    /\ cli.pc = "parsed"
    /\ LET args == cli.args[1]
           kwargs == Parameters(args)
       IN  /\ args.func = "convert_geoparquet_files"
           /\ Binds(args.func, kwargs)
           /\ cli' = [cli EXCEPT !.pc = "running",
                 !.call = Some([func |-> args.func, kwargs |-> kwargs])]
    /\ \/ \E k \in {"missing", "file"} :
             input_folder' = [kind |-> k, files |-> <<>>]
       \/ \E fs \in {<<>>} \cup SeqsUpTo(Batches, MaxFiles) :
             input_folder' = [kind |-> "dir", files |-> fs]
    /\ \E e \in {<<FALSE, FALSE>>, <<TRUE, FALSE>>, <<TRUE, TRUE>>} :
          output_folder' = [output_folder EXCEPT !.exists = e[1],
                                                 !.old = e[2]]
    /\ cpc' = "start"
    /\ UNCHANGED <<catalog, ortho_collection, nfile>>
    /\ UNCHANGED <<dvars, wfs>>

\* func(**parameters) for the lambda of layer_ids: the ids are printed.
MainList ==
    /\ cli.pc = "parsed"
    /\ LET args == cli.args[1]
           kwargs == Parameters(args)
       IN  /\ args.func = "lambda"
           /\ Binds(args.func, kwargs)
           /\ cli' = [cli EXCEPT !.pc = "finished",
                 !.call = Some([func |-> args.func, kwargs |-> kwargs]),
                 !.printed = Some(get_wfs_layer_ids)]
    /\ UNCHANGED <<dvars, cvars, wfs>>

\* The function returns or raises, and main with it.
MainEnd ==
    /\ cli.pc = "running"
    /\ run = "closed" \/ cpc \in {"done", "raised"}
    /\ cli' = [cli EXCEPT !.pc =
          IF mainpc = "returned" \/ cpc = "done" THEN "finished" ELSE "raised"]
    /\ UNCHANGED <<dvars, cvars, wfs>>

NextCli ==
    \/ MainTypeError
    \/ MainAsync
    \/ MainConvert
    \/ MainList
    \/ MainEnd
    \/ \E i \in Workers : Start(i)
    \/ \E i \in Workers, o \in Outcomes : Retry(i, o)
    \/ \E i \in Workers, o \in Outcomes : Fail(i, o)
    \/ \E i \in Workers : NextPage(i)
    \/ \E i \in Workers : LastPage(i)
    \/ \E i \in Workers : Cancelled(i)
    \/ DoneCallback
    \/ AwaitGather
    \/ CancelAllTasks
    \/ CloseLoop
    \/ ConvertRejected
    \/ ConvertBegin
    \/ ConvertFile
    \/ ConvertFileEmpty
    \/ ConvertFileExists
    \/ ConvertFinish

SpecCli == InitCli /\ [][NextCli]_vars

\* ================================================================ claims
Inside == {i \in Workers : worker[i].pc = "fetch"}
Woken == {i \in Workers : worker[i].pc = "woken"}
Waiting == {i \in Workers : worker[i].pc = "waiting"}

\* C1: with max_workers = k, at every instant at most k workers are inside
\* the section guarded by the semaphore; the slots are all accounted for
\* (held by a worker inside, reserved for a woken waiter, or free), and a
\* worker waits only while no slot is free.
C1_AtMostMaxWorkersInside ==
    /\ Cardinality(Inside) <= max_workers
    /\ Cardinality(Inside) + Cardinality(Woken) + semaphore.value = max_workers
    /\ Waiting /= {} => semaphore.value = 0

\* C1 witness: every slot is taken and another worker waits.
C1_Witness ==
    /\ Cardinality(Inside) = max_workers
    /\ Waiting /= {}

\* C2: when every worker succeeds the call returns, for every completion
\* order, the list whose i-th element is the path of the i-th layer id.
C2_ResultsInInputOrder ==
    /\ mainpc = "returned" =>
          outer.results = [i \in Workers |-> FilePath(layer_ids[i])]
    /\ (doneq = <<>> /\ \A i \in Workers : worker[i].pc = "done") =>
          outer.state = "result"

\* C2 witness: the call has returned although the first layer was not the
\* first to complete.
C2_Witness ==
    /\ mainpc = "returned"
    /\ finish_order[1] /= 1

\* C3 (as claimed): no started worker is ever cancelled, and the call fails
\* only once every worker has completed.
C3_NoCancelFailAfterAll ==
    /\ \A i \in Workers : worker[i].pc /= "cancelled"
    /\ mainpc = "raised" => \A i \in Workers : Finished(worker[i])

\* C4: one request gets at most max_tries attempts, attempt k being made
\* after k - 1 failed ones; the failure raised when they are used up comes
\* after exactly max_tries attempts, is chained to the error of the last
\* attempt and names the request.
C4_AtMostMaxTries ==
    \A i \in Workers :
        LET w == worker[i] IN
        /\ \A j \in 1..Len(w.tries) : w.tries[j] <= max_tries
        /\ w.pc = "fetch" => w.try_number = w.tries[Len(w.tries)] + 1
        /\ w.pc = "done" => w.try_number = w.tries[Len(w.tries)]
        /\ (w.pc = "failed" /\ w.result[1].type = "Exception") =>
              /\ w.tries[Len(w.tries)] = max_tries
              /\ w.result[1].cause = w.cause
              /\ Caught(w.cause[1])
              /\ w.result[1].about = Some(w.reqs[Len(w.reqs)])

\* C4 witness: a request that failed max_tries times, and one that
\* succeeded at its last permitted attempt.
C4_Witness ==
    \E i \in Workers :
        /\ worker[i].pc = "failed"
        /\ worker[i].result[1].type = "Exception"
        /\ worker[i].tries[1] = max_tries

\* The conditions the fetcher declares transient.
Transient == {"reset", "timeout", "stream", "s5xx"}

\* C5 (as claimed): an attempt that fails with anything but a transient
\* condition is the last attempt of its request.
C5_OnlyTransientRetried ==
    \A i \in Workers :
        (worker[i].cause /= None /\ worker[i].cause[1] \notin Transient) =>
            worker[i].pc = "failed"

\* The server's pages of layer l form the chain page 1 -> ... -> page n ->
\* (no cursor).
Linear(l) == pages[l] = Chain(l, Len(pages[l]))

\* The first n pages of layer l, in chain order.
Pages(l, n) == [p \in 1..n |-> [layer |-> l, page |-> p]]

\* C6: on a finite chain of n pages the walk holds, at every moment, the
\* pages before the one it is requesting, in chain order and once each, and
\* it ends with exactly the n pages, which are what is saved.
C6_ExactlyThePagesInOrder ==
    \A i \in Workers :
        LET w == worker[i]
            l == layer_ids[i]
        IN  Linear(l) =>
            /\ w.dfs = Pages(l, Len(w.dfs))
            /\ w.pc \in {"fetch", "failed"} =>
                  /\ Len(w.reqs) = Len(w.dfs) + 1
                  /\ PageOf(w.req) = [layer |-> l, page |-> Len(w.dfs) + 1]
            /\ w.pc = "done" =>
                  /\ w.dfs = Pages(l, Len(pages[l]))
                  /\ Len(w.reqs) = Len(pages[l])
                  /\ folder[l] = Some(w.dfs)

\* C6 witness: a walk over more than one page has ended, after a retry.
C6_Witness ==
    \E i \in Workers :
        /\ worker[i].pc = "done"
        /\ Len(worker[i].dfs) = MaxPages
        /\ MaxPages > 1
        /\ worker[i].tries[1] > 1

\* The next attribute of the page that request r addresses.
CursorOf(r) == pages[PageOf(r).layer][PageOf(r).page]

\* C7: the first request of a walk carries the layer's query parameters;
\* every later request is the cursor of the response before it, verbatim
\* and without parameters; the walk goes on after a response exactly when
\* the response carries a non-empty cursor.
C7_CursorVerbatim ==
    \A i \in Workers :
        LET w == worker[i] IN
        /\ w.reqs /= <<>> =>
              w.reqs[1] = [url |-> WFS_BASE_URL,
                           params |-> LayerParams(layer_ids[i])]
        /\ \A j \in 2..Len(w.reqs) :
              /\ w.reqs[j].params = None
              /\ w.reqs[j].url = CursorOf(w.reqs[j - 1])
              /\ Truthy(CursorOf(w.reqs[j - 1]))
        /\ w.pc = "done" => ~Truthy(CursorOf(w.reqs[Len(w.reqs)]))

\* C7 witness: a walk that followed a cursor and stopped at a page without
\* one.
C7_Witness ==
    \E i \in Workers :
        /\ worker[i].pc = "done"
        /\ Len(worker[i].reqs) > 1

\* C8: when a page's fetch uses up its retries the layer fails as a whole:
\* the worker ends with the error and not with the pages it gathered, no
\* parquet file is written for the layer, the call never returns a result,
\* and it fails once gather has seen the failure.
C8_ExhaustedLayerFailsCall ==
    \A i \in Workers :
        (worker[i].pc = "failed" /\ worker[i].result[1].type = "Exception") =>
            /\ worker[i].result[1].path = None
            /\ folder[layer_ids[i]] = None
            /\ outer.state /= "result"
            /\ mainpc /= "returned"
            /\ (\A k \in 1..Len(doneq) : doneq[k] /= TaskDone(i)) =>
                   outer.state = "exception"

\* C8 witness: a layer failed on a later page, with pages already gathered,
\* and the call has failed.
C8_Witness ==
    \E i \in Workers :
        /\ worker[i].pc = "failed"
        /\ worker[i].result[1].type = "Exception"
        /\ worker[i].dfs /= <<>>
        /\ mainpc = "raised"

\* The temporal intervals of the sub-collections written so far, in the
\* order they were processed, and their starts and ends.
SubIntervals ==
    [k \in 1..Len(output_folder.subdirs) |->
        output_folder.subdirs[k].collection_file.extent.temporal.interval]
SubStarts == [k \in 1..Len(SubIntervals) |-> Iter(SubIntervals[k])[1]]
SubEnds == [k \in 1..Len(SubIntervals) |-> Iter(SubIntervals[k])[2]]

\* C9 (as claimed): after a conversion of a non-empty set of
\* sub-collections, the covering interval written for the main collection
\* is [minimum start, maximum end] over the sub-collections' intervals.
C9_CoveringIsMinStartMaxEnd ==
    cpc = "done" =>
        output_folder.collection_file[1].interval[1]
            = List(<<PyMin(SubStarts), PyMax(SubEnds)>>)

\* C10 (as claimed): the main collection's temporal extent holds 1 + m
\* entries for m sub-collections: a covering interval of two bounds, then
\* every sub-collection's own [start, end] interval, whole and in
\* processing order.
C10_CoveringThenEveryInterval ==
    cpc = "done" =>
        LET interval == output_folder.collection_file[1].interval IN
        /\ Len(interval) = 1 + Len(SubIntervals)
        /\ interval[1].type = "list" /\ Len(interval[1].items) = 2
        /\ \A k \in 1..Len(SubIntervals) : interval[1 + k] = SubIntervals[k]

\* The directories of the sub-collections written so far; the k-th was
\* written from the k-th file of the input folder.
SubDirs == output_folder.subdirs
Written == 1..Len(SubDirs)

\* C11: the label of a sub-collection comes from the distinct akt_rok
\* values of its batch: one value v gives the label v (and the description
\* of a single year), more than one gives the label min-max (and the
\* description of a range); the id is the base id of the collection, a dot
\* and the label.  A batch without any value ends the conversion with an
\* error: the loop never gets past it and nothing is written for it.
C11_LabelFromDistinctYears ==
    /\ \A k \in Written :
          LET gdf == input_folder.files[k]
              years == {gdf[r].akt_rok : r \in 1..Len(gdf)}
              sub == SubDirs[k].collection_file
              label == sub.title.year
          IN  /\ years /= {}
              /\ Cardinality(years) = 1 =>
                    /\ \E v \in years : label = <<v>>
                    /\ sub.description.text = "z roku"
              /\ Cardinality(years) > 1 =>
                    /\ Len(label) = 2
                    /\ label[1] \in years /\ \A y \in years : label[1] <= y
                    /\ label[2] \in years /\ \A y \in years : label[2] >= y
                    /\ sub.description.text = "z lat"
              /\ sub.description.year = label
              /\ sub.id = [base |-> "poland.gugik.ortho", year |-> label]
              /\ SubDirs[k].id = sub.id
    /\ \A k \in 1..Len(input_folder.files) :
          input_folder.files[k] = <<>> =>
              /\ nfile <= k
              /\ Len(SubDirs) < k
              /\ cpc /= "done"

\* C11 witness: a conversion has written a sub-collection labelled with a
\* range and one labelled with a single year.
C11_Witness ==
    /\ cpc = "done"
    /\ \E k \in Written : Len(SubDirs[k].id.year) = 2
    /\ \E k \in Written : Len(SubDirs[k].id.year) = 1

\* C12 (as claimed): files that resolve to the same year end up in one
\* sub-collection of that year: a conversion of files that all have rows
\* does not fail in its loop, and once it is done every file's label has
\* exactly one sub-collection, which holds an item for every feature of
\* the file.
C12_OneSubCollectionPerYear ==
    /\ (cpc = "raised" /\ nfile >= 1) =>
          \E k \in 1..Len(input_folder.files) : input_folder.files[k] = <<>>
    /\ cpc = "done" =>
          \A k \in 1..Len(input_folder.files) :
              LET gdf == input_folder.files[k]
                  dirs == {d \in Written : SubDirs[d].id.year = CollectionYear(gdf)}
              IN  /\ Cardinality(dirs) = 1
                  /\ \A d \in dirs : \A r \in 1..Len(gdf) :
                        \E j \in 1..Len(SubDirs[d].item_files) :
                            SubDirs[d].item_files[j].id = gdf[r].gml_id

\* The number of links of a document with a given rel.
Rels(doc, rel) == Cardinality({j \in 1..Len(doc.links) : doc.links[j].rel = rel})

\* C13 (as claimed): in the tree written so far every node but the catalog
\* (the main collection, each sub-collection, each item) has exactly one
\* parent link and exactly one root link; the catalog has a root link and
\* no parent link.
C13_OneParentOneRoot ==
    /\ \A k \in Written :
          /\ Rels(SubDirs[k].collection_file, "parent") = 1
          /\ Rels(SubDirs[k].collection_file, "root") = 1
          /\ \A j \in 1..Len(SubDirs[k].item_files) :
                /\ Rels(SubDirs[k].item_files[j], "parent") = 1
                /\ Rels(SubDirs[k].item_files[j], "root") = 1
    /\ output_folder.collection_file /= None =>
          /\ Rels(output_folder.collection_file[1], "parent") = 1
          /\ Rels(output_folder.collection_file[1], "root") = 1
    /\ output_folder.catalog_file /= None =>
          /\ Rels(output_folder.catalog_file[1], "parent") = 0
          /\ Rels(output_folder.catalog_file[1], "root") = 1

\* The links of a document that lead down the tree.
Children(doc) == SelectSeq(doc.links, LAMBDA l : l.rel \in {"child", "item"})

\* C14: the catalog has one child link, to the main collection; the main
\* collection has one child link per sub-collection directory, in the order
\* the directories were made; a sub-collection has one item link per item
\* file, in the order the files were written; the children of a node are
\* distinct and each link carries the title of the node it leads to.
C14_LinksEnumerateChildren ==
    /\ \A k \in Written :
          LET items == SubDirs[k].item_files IN
          /\ Children(SubDirs[k].collection_file) =
                [j \in 1..Len(items) |->
                    [rel |-> "item",
                     href |-> [up |-> 0, dir |-> None,
                               file |-> items[j].id \o ".json"],
                     title |-> Some(items[j].properties.title)]]
          /\ \A i, j \in 1..Len(items) : i /= j => items[i].id /= items[j].id
    /\ \A j, k \in Written : j /= k => SubDirs[j].id /= SubDirs[k].id
    /\ cpc = "done" =>
          LET coll == output_folder.collection_file[1] IN
          /\ Children(coll) =
                [k \in Written |->
                    [rel |-> "child",
                     href |-> [up |-> 0, dir |-> Some(SubDirs[k].id),
                               file |-> "collection.json"],
                     title |-> Some(SubDirs[k].collection_file.title)]]
          /\ Children(output_folder.catalog_file[1]) =
                <<[rel |-> "child",
                   href |-> [up |-> 0, dir |-> Some(coll.id),
                             file |-> "collection.json"],
                   title |-> Some(coll.title)]>>

\* C14 witness: a tree with two sub-collections, one of them with two
\* items.
C14_Witness ==
    /\ cpc = "done"
    /\ Len(SubDirs) = 2
    /\ \E k \in Written : Len(SubDirs[k].item_files) = 2

\* The orders a sequence of n elements can be taken in.
Orders(n) == {p \in [1..n -> 1..n] : \A i, j \in 1..n : i /= j => p[i] /= p[j]}

\* C15 (as claimed): the main collection written is the one the conversion
\* writes whatever order the same files are encountered in.
C15_SameDocumentForEveryOrder ==
    cpc = "done" =>
        \A p \in Orders(Len(input_folder.files)) :
            ComposedCollection([k \in 1..Len(input_folder.files) |->
                                   input_folder.files[p[k]]])
                = output_folder.collection_file[1]

ParseUtc(v) ==
    <<Number(SubSeq(v.chars, 1, 4)), Number(SubSeq(v.chars, 6, 7)),
      Number(SubSeq(v.chars, 9, 10)), Number(SubSeq(v.chars, 12, 13)),
      Number(SubSeq(v.chars, 15, 16)), Number(SubSeq(v.chars, 18, 19)),
      IF v.chars[20] = Ch.dot THEN Number(SubSeq(v.chars, 21, 26)) ELSE 0>>

\* a is before b
Before(a, b) ==
    \E k \in 1..7 : a[k] < b[k] /\ \A j \in 1..(k - 1) : a[j] = b[j]
NotAfter(a, b) == a = b \/ Before(a, b)

\* The UTC instant one microsecond after the last microsecond of an hour.
NextHour(t) ==
    IF t[4] < 23 THEN <<t[1], t[2], t[3], t[4] + 1, 0, 0, 0>>
    ELSE IF t[3] < DaysIn(t[1], t[2]) THEN <<t[1], t[2], t[3] + 1, 0, 0, 0, 0>>
    ELSE IF t[2] < 12 THEN <<t[1], t[2] + 1, 1, 0, 0, 0, 0>>
    ELSE <<t[1] + 1, 1, 1, 0, 0, 0, 0>>

\* Midnight of the day after a day, as wall clock time.
NextDay(dt) ==
    IF dt.d < DaysIn(dt.y, dt.mo) THEN [dt EXCEPT !.d = @ + 1]
    ELSE IF dt.mo < 12 THEN [dt EXCEPT !.mo = @ + 1, !.d = 1]
    ELSE [dt EXCEPT !.y = @ + 1, !.mo = 1, !.d = 1]

\* The day of a row, as <<year, month, day>>.
DayOf(row) ==
    LET dt == FromIsoFormat(row.timePosition) IN <<dt.y, dt.mo, dt.d>>

\* C17: the temporal interval of a sub-collection starts at the datetime
\* of its earliest item and ends one microsecond before the midnight, in
\* the source timezone, that follows the day of its latest item; the start
\* is not after the end and the datetime of every item is inside.
C17_TemporalIntervalCoversItems ==
    \A k \in Written :
        LET items == SubDirs[k].item_files
            gdf == input_folder.files[k]
            interval == SubDirs[k].collection_file.extent.temporal.interval
            start == ParseUtc(interval.items[1])
            end == ParseUtc(interval.items[2])
        IN  /\ interval.type = "list" /\ Len(interval.items) = 2
            /\ NotAfter(start, end)
            /\ \A j \in 1..Len(items) :
                  /\ NotAfter(start, ParseUtc(items[j].properties.datetime))
                  /\ NotAfter(ParseUtc(items[j].properties.datetime), end)
            /\ \E j \in 1..Len(items) :
                  interval.items[1] = items[j].properties.datetime
            /\ \E r \in 1..Len(gdf) :
                  /\ \A q \in 1..Len(gdf) :
                        \/ DayOf(gdf[q]) = DayOf(gdf[r])
                        \/ \E c \in 1..3 :
                              /\ DayOf(gdf[q])[c] < DayOf(gdf[r])[c]
                              /\ \A b \in 1..(c - 1) :
                                    DayOf(gdf[q])[b] = DayOf(gdf[r])[b]
                  /\ end[5] = 59 /\ end[6] = 59 /\ end[7] = 999999
                  /\ NextHour(end) =
                        ParseUtc(IsoFormat(ToUTC(NextDay(
                            FromIsoFormat(gdf[r].timePosition)))))

\* C17 witness: a sub-collection of a winter day and of the day summer
\* time begins: from 2020-12-31T23:00:00Z to 2021-03-28T21:59:59.999999Z.
C17_Witness ==
    \E k \in Written :
        /\ Len(SubDirs[k].item_files) = 2
        /\ ParseUtc(SubDirs[k].collection_file.extent.temporal.interval.items[1])
              = <<2020, 12, 31, 23, 0, 0, 0>>
        /\ ParseUtc(SubDirs[k].collection_file.extent.temporal.interval.items[2])
              = <<2021, 3, 28, 21, 59, 59, 999999>>

\* C18 (as claimed): a worker holds its own slot only, which is free again
\* once the worker has returned or raised; every layer id has its task
\* from the start; and no task ends without having entered the download
\* section: a worker that waits for a slot gets it once the workers before
\* it have finished or failed.
C18_WaitersEnterSection ==
    /\ Cardinality(Inside) + Cardinality(Woken) + semaphore.value = max_workers
    /\ DOMAIN worker = 1..Len(layer_ids)
    /\ \A i \in Workers : Finished(worker[i]) => worker[i].reqs /= <<>>

\* C19: whatever the failed attempts left in the target file, what the
\* page walker reads is the complete body of the successful attempt and
\* nothing else, and it reads once per successful download: the file of a
\* request still being attempted, or given up, is never read.
C19_NoPartialOutputRead ==
    \A i \in Workers :
        LET w == worker[i] IN
        /\ Len(w.seen) = Len(w.dfs)
        /\ \A j \in 1..Len(w.seen) :
              /\ w.seen[j] = Body(PageOf(w.reqs[j]))
              /\ w.tries[j] >= 1
        /\ w.pc \in {"fetch", "failed"} => Len(w.seen) = Len(w.reqs) - 1
        /\ w.pc = "done" => Len(w.seen) = Len(w.reqs)

\* C19 witness: the last page was read from a file that held part of a
\* body, left by a failed attempt, when the successful attempt began.
C19_Witness ==
    \E i \in Workers :
        LET w == worker[i] IN
        /\ w.pc = "done"
        /\ w.left /= <<>>
        /\ w.seen[Len(w.seen)] = Body(PageOf(w.reqs[Len(w.reqs)]))

\* C20: once main has called func(**parameters), the operation the
\* subcommand names runs with the arguments given: download runs the
\* dispatcher over the layer ids given, writing into the folder given, as
\* download_all does over the ids the service lists; convert_geoparquet
\* converts from the input folder into the output folder; layer_ids prints
\* the ids.
C20_SubcommandsForwardArguments ==
    cli.pc \notin {"idle", "parsed"} =>
        LET args == cli.args[1] IN
        CASE args.action = "download" ->
               /\ cli.dispatch = Some([layer_ids |-> args.layer_ids,
                     output_directory |-> args.output_folder,
                     max_workers |-> default_max_workers])
               /\ layer_ids = args.layer_ids
          [] args.action = "download_all" ->
               /\ cli.dispatch = Some([layer_ids |-> get_wfs_layer_ids,
                     output_directory |-> args.output_folder,
                     max_workers |-> default_max_workers])
               /\ layer_ids = get_wfs_layer_ids
          [] args.action = "convert_geoparquet" ->
               /\ cli.call = Some([func |-> "convert_geoparquet_files",
                     kwargs |-> [input_folder |-> args.input_folder,
                                 output_folder |-> args.output_folder]])
               /\ cpc /= "idle"
          [] OTHER -> cli.printed = Some(get_wfs_layer_ids)

\* The attempts made on all the requests of a walk.
RECURSIVE SumSeq(_)
SumSeq(q) == IF q = <<>> THEN 0 ELSE Head(q) + SumSeq(Tail(q))

\* C23: the retry budget is per request: whatever the earlier requests of
\* the walk used up, a request has made no attempt when it begins and its
\* counter stands at 1, every request gets at most max_tries attempts, and
\* a walk of n pages makes at most max_tries * n attempts.
C23_BudgetPerRequest ==
    \A i \in Workers :
        LET w == worker[i]
            n == Len(pages[layer_ids[i]])
        IN  w.tries /= <<>> =>
            /\ \A j \in 1..Len(w.tries) : w.tries[j] <= max_tries
            /\ Len(w.tries) <= n
            /\ SumSeq(w.tries) <= max_tries * n
            /\ (w.pc = "fetch" /\ w.tries[Len(w.tries)] = 0) =>
                  w.try_number = 1
            /\ w.pc = "fetch" =>
                  max_tries - w.try_number = max_tries - 1 - w.tries[Len(w.tries)]

\* C23 witness: a walk of two pages whose first request took all of its
\* max_tries attempts and whose second request still got max_tries
\* attempts: more than max_tries in all.
C23_Witness ==
    \E i \in Workers :
        /\ Len(worker[i].tries) = 2
        /\ worker[i].tries[1] = max_tries
        /\ worker[i].tries[2] = max_tries
        /\ worker[i].pc = "done"

\* C25: the input is validated before the output is touched: the step in
\* which the conversion rejects its input (the path is missing, is no
\* directory, or holds no parquet file) leaves the output folder as it was,
\* and no step changes the output folder unless the input is a directory
\* with a parquet file in it.
C25_RejectedInputLeavesOutput ==
    [][/\ (cpc = "start" /\ cpc' = "raised") => output_folder' = output_folder
       /\ output_folder' /= output_folder =>
             (input_folder.kind = "dir" /\ input_folder.files /= <<>>)]_vars

\* C25 witness: a conversion that rejected a directory without parquet
\* files while the output folder exists and has contents, which are still
\* there.
C25_Witness ==
    /\ cpc = "raised"
    /\ nfile = 0
    /\ input_folder.kind = "dir"
    /\ input_folder.files = <<>>
    /\ output_folder.exists
    /\ output_folder.old

\* The sub-collection id each file of the input folder resolves to.
FileId(k) == SubCollection(input_folder.files[k]).id

\* C26: a conversion that completes has written one directory per file,
\* under pairwise distinct sub-collection ids; a conversion that stops in
\* its loop at a file with rows stops at the first file whose id an earlier
\* file has, with the directories of the files before it written; and the
\* collection document and catalog.json are there only once the conversion
\* is done.
C26_DistinctIdsOrAbort ==
    /\ cpc = "done" =>
          /\ Len(SubDirs) = Len(input_folder.files)
          /\ \A j, k \in Written : j /= k => SubDirs[j].id /= SubDirs[k].id
          /\ \A k \in Written : SubDirs[k].id = FileId(k)
    /\ (cpc = "raised" /\ nfile >= 1 /\ input_folder.files[nfile] /= <<>>) =>
          /\ \E j \in 1..(nfile - 1) : FileId(j) = FileId(nfile)
          /\ \A j, k \in 1..(nfile - 1) : j /= k => FileId(j) /= FileId(k)
          /\ Len(SubDirs) = nfile - 1
    /\ (output_folder.collection_file /= None
           \/ output_folder.catalog_file /= None) =>
          /\ cpc = "done"
          /\ output_folder.collection_file /= None
          /\ output_folder.catalog_file /= None

\* C26 witness: the second of two files resolves to the id of the first:
\* the conversion stopped there, with one directory written and neither
\* document.
C26_Witness ==
    /\ cpc = "raised"
    /\ nfile = 2
    /\ input_folder.files[2] /= <<>>
    /\ FileId(2) = FileId(1)
    /\ Len(SubDirs) = 1
    /\ output_folder.collection_file = None
    /\ output_folder.catalog_file = None

\* The order of coordinates: by whole degrees, then digit by digit; a
\* digit that is not written is 0.
DigitAt(d, k) == IF k <= Len(d.digits) THEN d.digits[k] ELSE 0
NotAbove(a, b) ==
    \/ a.whole < b.whole
    \/ /\ a.whole = b.whole
       /\ LET n == IF Len(a.digits) > Len(b.digits)
                   THEN Len(a.digits) ELSE Len(b.digits)
          IN  \/ \A k \in 1..n : DigitAt(a, k) = DigitAt(b, k)
              \/ \E k \in 1..n :
                    /\ DigitAt(a, k) < DigitAt(b, k)
                    /\ \A j \in 1..(k - 1) : DigitAt(a, j) = DigitAt(b, j)

\* C22 (as claimed): the spatial extent written for the main collection is
\* a single box that contains the bounding box of every sub-collection
\* under it.
C22_CollectionBoxCoversSubCollections ==
    cpc = "done" =>
        LET bbox == output_folder.collection_file[1].bbox IN
        /\ Len(bbox) = 1
        /\ \A k \in Written :
              LET sub == SubDirs[k].collection_file.extent.spatial.bbox[1] IN
              /\ NotAbove(bbox[1][1], Degrees(sub[1], <<>>))
              /\ NotAbove(bbox[1][2], Degrees(sub[2], <<>>))
              /\ NotAbove(Degrees(sub[3], <<>>), bbox[1][3])
              /\ NotAbove(Degrees(sub[4], <<>>), bbox[1][4])

\* The workers whose layer the server hands out a repeating cursor for.
Repeating(i) ==
    LET chain == pages[layer_ids[i]]
    IN  Truthy(chain[Len(chain)])

\* C21 (as claimed): the walk of a layer with a repeating cursor loops
\* forever: it never returns a result and never fails on its own.
C21_LoopsForever ==
    \A i \in Workers :
        Repeating(i) => worker[i].pc \notin {"done", "failed"}

\* C21 (amended): the walker has no cycle guard: on a repeating cursor it
\* requests the pages it has already read again, every request being the
\* cursor of the page before it, and never returns a result; the walk does
\* not go on forever, for every page is read one call of _go_through_pages
\* deeper: it makes no more requests than the recursion limit allows calls,
\* and after that many it fails with RecursionError.
C21_NoGuardUntilRecursionLimit ==
    \A i \in Workers :
        Repeating(i) =>
            LET w == worker[i] IN
            /\ w.pc /= "done"
            /\ folder[layer_ids[i]] = None
            /\ Len(w.reqs) <= MaxDepth
            /\ \A j \in 2..Len(w.reqs) :
                  LET at == PageOf(w.reqs[j - 1])
                  IN  w.reqs[j].url = pages[at.layer][at.page]
            /\ w.pc = "failed" =>
                  /\ w.result = Some(RawError("RecursionError"))
                  /\ Len(w.reqs) = MaxDepth
                  /\ Len(w.dfs) = MaxDepth

\* C21 witness: a walk that has requested the same cursor twice and has
\* then failed with RecursionError.
C21_Witness ==
    \E i \in Workers :
        /\ Repeating(i)
        /\ worker[i].pc = "failed"
        /\ worker[i].result = Some(RawError("RecursionError"))
        /\ \E j, k \in 2..Len(worker[i].reqs) :
              j /= k /\ worker[i].reqs[j] = worker[i].reqs[k]

\* C24: wfs_service caches its handle: once a call has returned a handle,
\* every later call returns that handle and no connection attempt is made
\* after the one that gave it; a call makes at most max_retries + 1
\* attempts, an attempt after the first following a ConnectionError only,
\* and gives up with "Max number of retries reached" after exactly
\* max_retries + 1 of them; a call that raises leaves _service unset, and
\* a call connects only while _service is unset.
C24_ServiceCachedAndRetriesBounded ==
    LET n == Len(wfs.results) IN
    /\ \A j, k \in 1..n :
          (j < k /\ wfs.results[j].kind = "return") =>
              wfs.results[k] = wfs.results[j]
    /\ wfs.service /= None =>
          /\ wfs.connections = wfs.service[1].id
          /\ wfs.pc = "idle"
          /\ \E j \in 1..n : wfs.results[j] = Returned(wfs.service[1])
    /\ wfs.attempts <= wfs.max_retries + 1
    /\ (wfs.pc = "connecting" /\ wfs.attempts >= 1) =>
          wfs.cause = Some("ConnectionError")
    /\ (n >= 1 /\ wfs.pc = "idle" /\ wfs.results[n].kind /= "return") =>
          /\ wfs.service = None
          /\ wfs.results[n].kind = "Exception" =>
                wfs.attempts = wfs.max_retries + 1
    /\ (wfs.service = None) = (\A j \in 1..n : wfs.results[j].kind /= "return")

\* C24 witness: a call gave up after max_retries + 1 = 6 attempts, the next
\* call connected afresh, at its second attempt, and the call after it got
\* the same handle without an attempt.
C24_Witness ==
    /\ Len(wfs.results) = 3
    /\ wfs.results[1].kind = "Exception"
    /\ wfs.results[2] = Returned(Handle(default_max_retries + 3))
    /\ wfs.results[3] = wfs.results[2]
    /\ wfs.connections = default_max_retries + 3

====
